---- MODULE Spec2Model ----
(***************************************************************************)
(* Model of tradezella_to_stb.py: the field transformers, the row mapper   *)
(* and the run of main() from argument parsing to the sink write.          *)
(*                                                                         *)
(* Text is modelled by TLA+ strings, handled character by character with   *)
(* Len, SubSeq and \o, so that strip(), lower(), replace(), split(),       *)
(* join() and the "in" substring test are computed as Python computes      *)
(* them.  A cell value is a tagged record: a missing cell (pandas NaN), an *)
(* absent key (None), a string, an int, a float with an integral value, a  *)
(* bool, or a pandas Timestamp.                                            *)
(***************************************************************************)
EXTENDS Integers, Sequences, FiniteSets, TLC

-----------------------------------------------------------------------------
(* Python values *)

NaN      == [t |-> "nan"]
None     == [t |-> "none"]
PyStr(s)   == [t |-> "str", s |-> s]
PyInt(n)   == [t |-> "int", n |-> n]
PyFloat(n) == [t |-> "float", f |-> n]
PyBool(b)  == [t |-> "bool", b |-> b]
Ts(d)    == [t |-> "ts", d |-> d]

\* pd.isna / pd.notna on a scalar
isna(val) == val.t \in {"nan", "none"}

-----------------------------------------------------------------------------
(* Python string operations *)

Ch(s, i) == SubSeq(s, i, i)

Rest(s, i) == SubSeq(s, i, Len(s))

IsSpace(c) == c \in {" ", "\t", "\n"}

UpperAlpha == "ABCDEFGHIJKLMNOPQRSTUVWXYZ"

LowerAlpha == "abcdefghijklmnopqrstuvwxyz"

LowerCh(c) ==
    IF \E i \in 1..26 : Ch(UpperAlpha, i) = c
    THEN Ch(LowerAlpha, CHOOSE i \in 1..26 : Ch(UpperAlpha, i) = c)
    ELSE c

\* str.lower(), character by character (halving keeps the evaluation shallow)
RECURSIVE lower(_)
lower(s) ==
    IF Len(s) = 0 THEN ""
    ELSE IF Len(s) = 1 THEN LowerCh(s)
    ELSE lower(SubSeq(s, 1, Len(s) \div 2)) \o lower(Rest(s, (Len(s) \div 2) + 1))

strip(s) ==
    IF \A i \in 1..Len(s) : IsSpace(Ch(s, i))
    THEN ""
    ELSE LET lo == CHOOSE i \in 1..Len(s) :
                       ~IsSpace(Ch(s, i)) /\ \A j \in 1..(i-1) : IsSpace(Ch(s, j))
             hi == CHOOSE i \in 1..Len(s) :
                       ~IsSpace(Ch(s, i)) /\ \A j \in (i+1)..Len(s) : IsSpace(Ch(s, j))
         IN  SubSeq(s, lo, hi)

\* Index of the leftmost occurrence of sub in s, 0 if there is none
find(s, sub) ==
    LET At(i) == SubSeq(s, i, i + Len(sub) - 1) = sub
        last  == Len(s) - Len(sub) + 1
    IN  IF \E i \in 1..last : At(i)
        THEN CHOOSE i \in 1..last : At(i) /\ \A j \in 1..(i-1) : ~At(j)
        ELSE 0

\* str.replace(old, new): leftmost, non-overlapping occurrences
RECURSIVE replace(_, _, _)
replace(s, old, new) ==
    LET i == find(s, old)
    IN  IF i = 0 THEN s
        ELSE SubSeq(s, 1, i - 1) \o new \o replace(Rest(s, i + Len(old)), old, new)

\* str.split(','): always at least one part
RECURSIVE split(_)
split(s) ==
    LET i == find(s, ",")
    IN  IF i = 0 THEN <<s>>
        ELSE <<SubSeq(s, 1, i - 1)>> \o split(Rest(s, i + 1))

\* sep.join(parts)
RECURSIVE join(_, _)
join(sep, parts) ==
    IF Len(parts) = 0 THEN ""
    ELSE IF Len(parts) = 1 THEN parts[1]
    ELSE parts[1] \o sep \o join(sep, Tail(parts))

\* sub in s
contains(s, sub) == find(s, sub) # 0

Digits == "0123456789"

IsDigit(c) == \E i \in 1..10 : Ch(Digits, i) = c

DigitVal(c) == (CHOOSE i \in 1..10 : Ch(Digits, i) = c) - 1

RECURSIVE NatToStr(_)
NatToStr(n) ==
    IF n < 10 THEN Ch(Digits, n + 1)
    ELSE NatToStr(n \div 10) \o Ch(Digits, (n % 10) + 1)

IntToStr(n) == IF n < 0 THEN "-" \o NatToStr(-n) ELSE NatToStr(n)

AllDigits(s) == Len(s) > 0 /\ \A i \in 1..Len(s) : IsDigit(Ch(s, i))

RECURSIVE StrToNat(_)
StrToNat(s) ==
    IF Len(s) = 0 THEN 0
    ELSE 10 * StrToNat(SubSeq(s, 1, Len(s) - 1)) + DigitVal(Ch(s, Len(s)))

\* str(val)
pystr(val) ==
    CASE val.t = "nan"   -> "nan"
      [] val.t = "none"  -> "None"
      [] val.t = "str"   -> val.s
      [] val.t = "int"   -> IntToStr(val.n)
      [] val.t = "float" -> IntToStr(val.f) \o ".0"
      [] val.t = "bool"  -> IF val.b THEN "True" ELSE "False"
      [] val.t = "ts"    -> "timestamp"

-----------------------------------------------------------------------------
(* Field transformers *)

CATCH_ALL == "other (specify below)"

VALID_ENTRY_MODELS ==
    { "3x entry", "advanced structure entry", "breakers",
      "catching the move of the day", "catching the move of the week",
      "change of delivery", "cisd", "displacement", "fail flip", "inversions",
      "fcr", "market structure shift", "inverted fvg", "mmem", "ny fx entry",
      "smm entry", "other (specify below)", "time based entry model 2",
      "time based entry model 1" }

Range(seq) == { seq[i] : i \in 1..Len(seq) }

\* get_entry_model without the normalisation of the legacy typo
get_entry_model_no_typo_fix(val) ==
    IF isna(val) \/ strip(pystr(val)) = ""
    THEN <<CATCH_ALL, "-">>
    ELSE LET raw        == split(pystr(val))
             parts      == [i \in 1..Len(raw) |-> lower(strip(raw[i]))]
             InVocab(p) == p \in VALID_ENTRY_MODELS
             matches    == SelectSeq(parts, InVocab)
             NotOther(m) == m # CATCH_ALL
             non_other  == SelectSeq(matches, NotOther)
         IN  IF (VALID_ENTRY_MODELS \ {CATCH_ALL}) \subseteq Range(non_other)
             THEN <<CATCH_ALL, "-">>
             ELSE IF Len(non_other) > 0
                  THEN <<non_other[1],
                         IF Len(non_other) > 1
                         THEN join(", ", Tail(non_other)) ELSE "-">>
                  ELSE <<CATCH_ALL, "-">>

\* get_entry_model without the detection of a full dropdown dump
get_entry_model_no_dump_check(val) ==
    IF isna(val) \/ strip(pystr(val)) = ""
    THEN <<CATCH_ALL, "-">>
    ELSE LET normalised == replace(pystr(val), "csid", "cisd")
             raw        == split(normalised)
             parts      == [i \in 1..Len(raw) |-> lower(strip(raw[i]))]
             InVocab(p) == p \in VALID_ENTRY_MODELS
             matches    == SelectSeq(parts, InVocab)
             NotOther(m) == m # CATCH_ALL
             non_other  == SelectSeq(matches, NotOther)
         IN  IF Len(non_other) > 0
             THEN <<non_other[1],
                    IF Len(non_other) > 1
                    THEN join(", ", Tail(non_other)) ELSE "-">>
             ELSE <<CATCH_ALL, "-">>

get_entry_model(val) ==
    IF isna(val) \/ strip(pystr(val)) = ""
    THEN <<CATCH_ALL, "-">>
    ELSE LET normalised == replace(pystr(val), "csid", "cisd")
             raw        == split(normalised)
             parts      == [i \in 1..Len(raw) |-> lower(strip(raw[i]))]
             InVocab(p) == p \in VALID_ENTRY_MODELS
             matches    == SelectSeq(parts, InVocab)
             NotOther(m) == m # CATCH_ALL
             non_other  == SelectSeq(matches, NotOther)
             all_valid_non_other == VALID_ENTRY_MODELS \ {CATCH_ALL}
         IN  IF all_valid_non_other \subseteq Range(non_other)
             THEN <<CATCH_ALL, "-">>
             ELSE IF Len(non_other) > 0
                  THEN <<non_other[1],
                         IF Len(non_other) > 1
                         THEN join(", ", Tail(non_other)) ELSE "-">>
                  ELSE <<CATCH_ALL, "-">>

\* float(val): <<"num", v>>, <<"nan">>, <<"inf", sign>> or <<"error">> (TypeError /
\* ValueError).  Only the sign of the result is used by the caller, so a
\* decimal text "a.b" is returned scaled by a power of ten (sign and
\* zero-ness are those of the float).
UnsignedFloatText(u) ==
    LET l   == lower(u)
        dot == CHOOSE k \in 0..Len(u) :
                   IF \E j \in 1..Len(u) : Ch(u, j) = "."
                   THEN k > 0 /\ Ch(u, k) = "." /\ \A j \in 1..(k-1) : Ch(u, j) # "."
                   ELSE k = 0
    IN  IF l = "nan" THEN <<"nan">>
        ELSE IF l \in {"inf", "infinity"} THEN <<"inf", 1>>
        ELSE IF dot = 0
             THEN IF AllDigits(u) THEN <<"num", StrToNat(u)>> ELSE <<"error">>
             ELSE LET a == SubSeq(u, 1, dot - 1)
                      b == Rest(u, dot + 1)
                  IN  IF (a = "" \/ AllDigits(a)) /\ (b = "" \/ AllDigits(b))
                         /\ (a \o b) # ""
                      THEN <<"num", StrToNat(a \o b)>>
                      ELSE <<"error">>

pyfloat(val) ==
    CASE val.t = "nan"   -> <<"nan">>
      [] val.t = "none"  -> <<"error">>
      [] val.t = "int"   -> <<"num", val.n>>
      [] val.t = "float" -> <<"num", val.f>>
      [] val.t = "bool"  -> <<"num", IF val.b THEN 1 ELSE 0>>
      [] val.t = "ts"    -> <<"error">>
      [] val.t = "str"   ->
           LET s    == strip(val.s)
               neg  == Len(s) > 0 /\ Ch(s, 1) = "-"
               sgn  == Len(s) > 0 /\ Ch(s, 1) \in {"-", "+"}
               u    == IF sgn THEN Rest(s, 2) ELSE s
               r    == UnsignedFloatText(u)
           IN  IF r[1] = "num" THEN <<"num", IF neg THEN -r[2] ELSE r[2]>>
               ELSE IF r[1] = "inf" THEN <<"inf", IF neg THEN -1 ELSE 1>>
               ELSE r

\* row.get(key, default); row.get(key) is Get(row, key, None)
Get(row, key, default) == IF key \in DOMAIN row THEN row[key] ELSE default

get_outcome(row) ==
    LET status == lower(strip(pystr(Get(row, "Status", PyStr("")))))
        f      == pyfloat(Get(row, "Net P&L", PyInt(0)))
        pnl    == IF f[1] = "error" THEN <<"num", 0>> ELSE f
        IsZero == pnl[1] = "num" /\ pnl[2] = 0
        IsPos  == (pnl[1] = "num" /\ pnl[2] > 0) \/ (pnl[1] = "inf" /\ pnl[2] > 0)
        IsNeg  == (pnl[1] = "num" /\ pnl[2] < 0) \/ (pnl[1] = "inf" /\ pnl[2] < 0)
    IN  IF status = "breakeven" \/ IsZero THEN "breakeven"
        ELSE IF status = "win" \/ IsPos THEN "green"
        ELSE IF status = "loss" \/ IsNeg THEN "red"
        ELSE ""

\* normalize_yesno comparing the text as given, neither trimmed nor lowercased
normalize_yesno_raw_text(val) ==
    LET v == pystr(val)
    IN  IF contains(v, "yes") /\ contains(v, "no") THEN ""
        ELSE IF v \in {"true", "yes", "1", "y"} THEN "yes"
        ELSE IF v \in {"false", "no", "0", "n"} THEN "no"
        ELSE ""

normalize_yesno(val) ==
    LET v == lower(strip(pystr(val)))
    IN  IF contains(v, "yes") /\ contains(v, "no") THEN ""
        ELSE IF v \in {"true", "yes", "1", "y"} THEN "yes"
        ELSE IF v \in {"false", "no", "0", "n"} THEN "no"
        ELSE ""

safe_str(val) ==
    IF isna(val) THEN ""
    ELSE LET s == strip(pystr(val))
         IN  IF lower(s) = "nan" THEN "" ELSE s

-----------------------------------------------------------------------------
(* Dates.  A calendar date is <<year, month, day>>; <<>> is None. *)

IsLeap(y) == (y % 4 = 0 /\ y % 100 # 0) \/ y % 400 = 0

DaysIn(y, m) ==
    IF m = 2 THEN (IF IsLeap(y) THEN 29 ELSE 28)
    ELSE IF m \in {4, 6, 9, 11} THEN 30 ELSE 31

ValidDate(y, m, d) == m \in 1..12 /\ d \in 1..DaysIn(y, m)

\* The text layouts of the date parser that the model covers: "iso" is
\* YYYY-MM-DD, "mdy" is MM/DD/YYYY, anything else is "bad" (the parser raises).
DateLayout(s) ==
    IF /\ Len(s) = 10 /\ Ch(s, 5) = "-" /\ Ch(s, 8) = "-"
       /\ AllDigits(SubSeq(s, 1, 4)) /\ AllDigits(SubSeq(s, 6, 7))
       /\ AllDigits(SubSeq(s, 9, 10))
       /\ ValidDate(StrToNat(SubSeq(s, 1, 4)), StrToNat(SubSeq(s, 6, 7)),
                    StrToNat(SubSeq(s, 9, 10)))
    THEN "iso"
    ELSE IF /\ Len(s) = 10 /\ Ch(s, 3) = "/" /\ Ch(s, 6) = "/"
            /\ AllDigits(SubSeq(s, 1, 2)) /\ AllDigits(SubSeq(s, 4, 5))
            /\ AllDigits(SubSeq(s, 7, 10))
            /\ ValidDate(StrToNat(SubSeq(s, 7, 10)), StrToNat(SubSeq(s, 1, 2)),
                         StrToNat(SubSeq(s, 4, 5)))
    THEN "mdy"
    ELSE "bad"

\* pd.to_datetime(text).date() for a text whose layout is not "bad"
ParseDate(s) ==
    IF DateLayout(s) = "iso"
    THEN <<StrToNat(SubSeq(s, 1, 4)), StrToNat(SubSeq(s, 6, 7)), StrToNat(SubSeq(s, 9, 10))>>
    ELSE <<StrToNat(SubSeq(s, 7, 10)), StrToNat(SubSeq(s, 1, 2)), StrToNat(SubSeq(s, 4, 5))>>

\* safe_date: a missing value, a text the parser rejects and a value of a type
\* the parser rejects all give None; a small number is nanoseconds since the
\* epoch.
safe_date(val) ==
    CASE isna(val)        -> <<>>
      [] val.t = "ts"     -> val.d
      [] val.t = "str"    -> IF DateLayout(val.s) = "bad" THEN <<>> ELSE ParseDate(val.s)
      [] val.t \in {"int", "float"} -> <<1970, 1, 1>>
      [] val.t = "bool"   -> <<>>

Pad(n, w) ==
    LET s == NatToStr(n)
    IN  IF Len(s) >= w THEN s ELSE SubSeq("0000", 1, w - Len(s)) \o s

\* d.strftime('%m/%d/%Y')
strftime_mdy(d) == Pad(d[2], 2) \o "/" \o Pad(d[3], 2) \o "/" \o Pad(d[1], 4)

\* d.strftime('%Y-%m-%d')
strftime_ymd(d) == Pad(d[1], 4) \o "-" \o Pad(d[2], 2) \o "-" \o Pad(d[3], 2)

format_date(val) ==
    LET d == safe_date(val)
    IN  IF d # <<>> THEN strftime_ymd(d) ELSE ""

-----------------------------------------------------------------------------
(* Row mapper *)

\* map_row of the variant without the overflow column
map_row_no_overflow(row) ==
    LET em == get_entry_model(Get(row, "Entry Model", None))
    IN  << format_date(Get(row, "Open Date", None)),
           em[1],
           "USD",
           Get(row, "Net P&L", PyInt(0)),
           get_outcome(row),
           safe_str(Get(row, "Emotions", None)),
           normalize_yesno(Get(row, "Did Emotions Affect Decisions?", None)),
           normalize_yesno(Get(row, "Was Emotionally Stable?", None)),
           safe_str(Get(row, "Profit Target   Did You Respect It?", None)),
           safe_str(Get(row, "Stop Loss   Did You Respect It?", None)),
           safe_str(Get(row, "Entry Logic Explanation", None)),
           safe_str(Get(row, "How Did The Trade Play Out?", None)),
           safe_str(Get(row, "Notes For Coaches", None)),
           "" >>

map_row(row) ==
    LET em == get_entry_model(Get(row, "Entry Model", None))
    IN  << format_date(Get(row, "Open Date", None)),
           em[1],
           em[2],
           "USD",
           Get(row, "Net P&L", PyInt(0)),
           get_outcome(row),
           safe_str(Get(row, "Emotions", None)),
           normalize_yesno(Get(row, "Did Emotions Affect Decisions?", None)),
           normalize_yesno(Get(row, "Was Emotionally Stable?", None)),
           safe_str(Get(row, "Profit Target   Did You Respect It?", None)),
           safe_str(Get(row, "Stop Loss   Did You Respect It?", None)),
           safe_str(Get(row, "Entry Logic Explanation", None)),
           safe_str(Get(row, "How Did The Trade Play Out?", None)),
           safe_str(Get(row, "Notes For Coaches", None)),
           "" >>

-----------------------------------------------------------------------------
(* Bounds of the explored inputs *)

MaxParts == 3

MaxPieces == 3

MaxPnl == 2

MaxMissing == 1

MaxRows == 2

-----------------------------------------------------------------------------
(* Inputs of the field transformers *)

SeqsUpTo(S, n) == UNION { [1..k -> S] : k \in 0..n }

EntryTokens ==
    { "breakers", " cisd", "csid", "CSID", " Fail Flip ", "foo",
      " Other (Specify Below)", "" }

\* The non-catch-all vocabulary in the order of the source's literal
DumpLabels ==
    << "3x entry", "advanced structure entry", "breakers",
       "catching the move of the day", "catching the move of the week",
       "change of delivery", "cisd", "displacement", "fail flip", "inversions",
       "fcr", "market structure shift", "inverted fvg", "mmem", "ny fx entry",
       "smm entry", "time based entry model 2", "time based entry model 1" >>

\* A dropdown dump of the whole vocabulary (drop = 0) or of all of it but the
\* label at position drop, spelled with or without the legacy typo, with or
\* without the catch-all label, in source order or rotated by one.
DumpCell(drop, typo, withOther, rot) ==
    LET n       == Len(DumpLabels)
        order   == [i \in 1..n |-> DumpLabels[((i - 1 + rot) % n) + 1]]
        Keep(l) == drop = 0 \/ l # DumpLabels[drop]
        kept    == SelectSeq(order, Keep)
        spelt   == [i \in 1..Len(kept) |->
                      IF typo /\ kept[i] = "cisd" THEN "csid" ELSE kept[i]]
        all     == IF withOther THEN <<CATCH_ALL>> \o spelt ELSE spelt
    IN  PyStr(join(", ", all))

EntryCells ==
    { PyStr(join(",", t)) : t \in SeqsUpTo(EntryTokens, MaxParts) }
    \cup { DumpCell(drop, typo, withOther, rot) :
             drop \in 0..Len(DumpLabels), typo \in BOOLEAN,
             withOther \in BOOLEAN, rot \in 0..1 }
    \cup { NaN, None, PyInt(3), PyStr("   ") }

StatusCells ==
    { NaN, PyStr(""), PyStr("Win"), PyStr(" WIN "), PyStr("Loss"), PyStr("loss"),
      PyStr("Breakeven"), PyStr(" breakEven"), PyStr("Open"), PyStr("winner") }

PnlCells ==
    { PyInt(n) : n \in -MaxPnl..MaxPnl } \cup { PyFloat(n) : n \in -MaxPnl..MaxPnl }
    \cup { NaN, PyStr("150"), PyStr("-75.5"), PyStr(" +3 "), PyStr("0.00"),
           PyStr("abc"), PyStr("$5"), PyStr("1,000"), PyStr("-"), PyStr("inf"),
           PyStr("-Infinity"), PyStr("NaN") }

\* A record exposing any subset of the two fields get_outcome reads
OutcomeRows ==
    { [c \in {"Status", "Net P&L"} |-> IF c = "Status" THEN st ELSE p] :
        st \in StatusCells, p \in PnlCells }
    \cup { [c \in {"Status"} |-> st] : st \in StatusCells }
    \cup { [c \in {"Net P&L"} |-> p] : p \in PnlCells }
    \cup { [c \in {} |-> NaN] }

YesNoPieces ==
    { "yes", "no", "Y", "N", "o", "0", "1", " ", ", ", "true", "False" }

YesNoCells ==
    { PyStr(join("", t)) : t \in SeqsUpTo(YesNoPieces, MaxPieces) }
    \cup { NaN, None, PyBool(TRUE), PyBool(FALSE), PyInt(0), PyInt(1),
           PyFloat(1), PyStr("maybe"), PyStr("Yes, No") }

Columns ==
    { "Open Date", "Entry Model", "Net P&L", "Status", "Emotions",
      "Did Emotions Affect Decisions?", "Was Emotionally Stable?",
      "Profit Target   Did You Respect It?", "Stop Loss   Did You Respect It?",
      "Entry Logic Explanation", "How Did The Trade Play Out?",
      "Notes For Coaches" }

\* Three kinds of exported row: a clean trade, a trade whose cells are
\* malformed, and a trade whose multi-select cells are dropdown dumps.
Content(k) ==
    [c \in Columns |->
       CASE c = "Open Date"   -> PyStr("2024-03-09")
         [] c = "Entry Model" ->
              IF k = 1 THEN PyStr("breakers, cisd")
              ELSE IF k = 2 THEN PyStr("scalp") ELSE NaN
         [] c = "Net P&L"     ->
              IF k = 1 THEN PyFloat(150)
              ELSE IF k = 2 THEN PyStr("abc") ELSE PyFloat(-75)
         [] c = "Status"      ->
              IF k = 1 THEN PyStr("Win")
              ELSE IF k = 2 THEN NaN ELSE PyStr("Loss")
         [] c = "Emotions"    ->
              IF k = 1 THEN PyStr(" calm ") ELSE IF k = 2 THEN NaN ELSE PyStr("nan")
         [] c = "Did Emotions Affect Decisions?" ->
              IF k = 1 THEN PyStr("No") ELSE IF k = 2 THEN PyFloat(1) ELSE PyStr("Yes, No")
         [] c = "Was Emotionally Stable?" ->
              IF k = 1 THEN PyBool(TRUE) ELSE IF k = 2 THEN PyStr("maybe") ELSE PyStr("Yes, No")
         [] OTHER -> IF k = 1 THEN PyStr("as planned") ELSE NaN ]

Restrict(row, S) == [c \in S |-> row[c]]

MapRowDates ==
    { NaN, PyStr("2024-03-09"), PyStr("01/05/2024"), PyStr("2024-02-30"),
      PyStr("someday"), PyStr(""), Ts(<<2023, 12, 31>>), PyInt(5), PyBool(TRUE) }

\* Source records for map_row: each kind of row, with each date cell, and with
\* up to MaxMissing of the fields absent from the record altogether.
MapRowRows ==
    { Restrict([Content(k) EXCEPT !["Open Date"] = od], Columns \ missing) :
        k \in 1..3, od \in MapRowDates,
        missing \in { m \in SUBSET Columns : Cardinality(m) <= MaxMissing } }
    \cup { [c \in {} |-> NaN] }

-----------------------------------------------------------------------------
(* Inputs of a run of main() *)

PLACEHOLDER == "YOUR_SPREADSHEET_ID_HERE"

\* --sheet-id as parsed: None when the flag is not given
SheetIdArgs == { "None", PLACEHOLDER, "1AbCdEf" }

CsvRow(k, od) == [Content(k) EXCEPT !["Open Date"] = od]

\* The rows a CSV export is made of: two trades of the same day, a malformed
\* trade in the other date layout, a footer row without a date, a row whose
\* date cell is blank text, and a row whose date cell is not a date.
CsvRowPool ==
    { CsvRow(1, PyStr("2024-03-09")), CsvRow(3, PyStr("2024-03-09")),
      CsvRow(2, PyStr("01/05/2024")), CsvRow(2, PyStr("2023-12-31")),
      CsvRow(3, NaN), CsvRow(1, PyStr("   ")), CsvRow(1, PyStr("not a date")) }

CsvFiles == SeqsUpTo(CsvRowPool, MaxRows)

-----------------------------------------------------------------------------
VARIABLES
    call, arg, ret,            \* a call of one field transformer or of map_row
    pc,                        \* position of main()
    args,                      \* parsed command line
    fs,                        \* which of the files named by args exist
    csv,                       \* rows of the input file, as read by read_csv
    df,                        \* the data frame after filter, parse and sort
    use_sheets,                \* the output mode chosen
    sink,                      \* the sink writer that was entered, if any
    written,                   \* rows persisted by the sink
    exit_status                \* process exit status, -1 while running

pureVars == <<call, arg, ret>>

mainVars == <<pc, args, fs, csv, df, use_sheets, sink, written, exit_status>>

vars == <<call, arg, ret, pc, args, fs, csv, df, use_sheets, sink, written, exit_status>>

PENDING == <<"pending">>

NoCall == call = "none" /\ arg = NaN /\ ret = PENDING

NoRun ==
    /\ pc = "idle" /\ args = <<>> /\ fs = <<>> /\ csv = <<>> /\ df = <<>>
    /\ use_sheets = FALSE /\ sink = "none" /\ written = <<>> /\ exit_status = -1

-----------------------------------------------------------------------------
(* Calls of the field transformers and of the row mapper *)

InitPure ==
    /\ NoRun
    /\ ret = PENDING
    /\ \/ call = "get_entry_model" /\ arg \in EntryCells
       \/ call = "get_outcome"     /\ arg \in OutcomeRows
       \/ call = "normalize_yesno" /\ arg \in YesNoCells
       \/ call = "map_row"         /\ arg \in MapRowRows

CallEntryModel ==
    /\ call = "get_entry_model" /\ ret = PENDING
    /\ ret' = <<"ret", get_entry_model(arg)>>
    /\ UNCHANGED <<call, arg>> /\ UNCHANGED mainVars

CallOutcome ==
    /\ call = "get_outcome" /\ ret = PENDING
    /\ ret' = <<"ret", get_outcome(arg)>>
    /\ UNCHANGED <<call, arg>> /\ UNCHANGED mainVars

CallYesNo ==
    /\ call = "normalize_yesno" /\ ret = PENDING
    /\ ret' = <<"ret", normalize_yesno(arg)>>
    /\ UNCHANGED <<call, arg>> /\ UNCHANGED mainVars

CallMapRow ==
    /\ call = "map_row" /\ ret = PENDING
    /\ ret' = <<"ret", map_row(arg)>>
    /\ UNCHANGED <<call, arg>> /\ UNCHANGED mainVars

NextPure == CallEntryModel \/ CallOutcome \/ CallYesNo \/ CallMapRow

SpecPure == InitPure /\ [][NextPure]_vars

Returned(f) == call = f /\ ret # PENDING

Result == ret[2]

-----------------------------------------------------------------------------
(* A run of main().  The export is taken to have an 'Open Date' column. *)

SPREADSHEET_ID == PLACEHOLDER

\* sheet_id = args.sheet_id or SPREADSHEET_ID
ResolvedSheetId(a) == IF a.sheet_id = "None" THEN SPREADSHEET_ID ELSE a.sheet_id

\* The row filter without the pd.notna test: a missing cell reads 'nan'
HasOpenDate_text_only(row) == strip(pystr(row["Open Date"])) # ""

\* The row filter: pd.notna(cell) & (str(cell).strip() != '')
HasOpenDate(row) ==
    ~isna(row["Open Date"]) /\ strip(pystr(row["Open Date"])) # ""

\* pd.to_datetime on one cell of the column; NaT for a missing cell
ToTimestamp(cell) == IF isna(cell) THEN NaN ELSE Ts(ParseDate(cell.s))

Unparseable(cell) == ~isna(cell) /\ DateLayout(cell.s) = "bad"

Layouts(rows) ==
    { DateLayout(rows[i]["Open Date"].s) :
        i \in { j \in 1..Len(rows) : ~isna(rows[j]["Open Date"]) } }

\* pd.to_datetime on the column raises when a cell is not a date.  When the
\* cells are dates in different layouts it raises or not depending on the
\* pandas release (one layout inferred for the column, or each cell parsed on
\* its own).
ToDatetimeMayRaise(rows) ==
    \/ \E i \in 1..Len(rows) : Unparseable(rows[i]["Open Date"])
    \/ Cardinality(Layouts(rows)) > 1

ToDatetimeMayReturn(rows) ==
    \A i \in 1..Len(rows) : ~Unparseable(rows[i]["Open Date"])

\* Timestamp order, NaT last
DateLE(x, y) ==
    \/ y.t = "nan"
    \/ /\ x.t = "ts" /\ y.t = "ts"
       /\ \/ x.d[1] < y.d[1]
          \/ x.d[1] = y.d[1] /\ x.d[2] < y.d[2]
          \/ x.d[1] = y.d[1] /\ x.d[2] = y.d[2] /\ x.d[3] <= y.d[3]

Orderings(n) ==
    { p \in [1..n -> 1..n] : \A i, j \in 1..n : p[i] = p[j] => i = j }

\* df.sort_values('Open Date').reset_index(drop=True): the sort is not
\* stable, rows of the same date come out in any order
SortValues(rows) ==
    { [i \in 1..Len(rows) |-> rows[p[i]]] : p \in
        { q \in Orderings(Len(rows)) :
            \A i \in 1..(Len(rows) - 1) :
                DateLE(rows[q[i]]["Open Date"], rows[q[i + 1]]["Open Date"]) } }

\* Output mode with the auto-detection satisfied by either condition
choose_mode_either(a, f) ==
    IF a.xlsx THEN FALSE
    ELSE IF a.sheets THEN TRUE
    ELSE ResolvedSheetId(a) # PLACEHOLDER \/ f.creds

\* Output mode
choose_mode(a, f) ==
    IF a.xlsx THEN FALSE
    ELSE IF a.sheets THEN TRUE
    ELSE ResolvedSheetId(a) # PLACEHOLDER /\ f.creds

CsvMissing(f) == ~f.csv

SheetIdUnset(a) == ResolvedSheetId(a) = PLACEHOLDER

CredsMissing(f) == ~f.creds

TemplateMissing_unchecked(f) == FALSE

TemplateMissing(f) == ~f.template

Init ==
    /\ NoCall
    /\ pc = "validate"
    /\ args \in [xlsx : BOOLEAN, sheets : BOOLEAN, sheet_id : SheetIdArgs]
    /\ fs \in [csv : BOOLEAN, creds : BOOLEAN, template : BOOLEAN]
    /\ csv = <<>> /\ df = <<>> /\ use_sheets = FALSE
    /\ sink = "none" /\ written = <<>> /\ exit_status = -1

Exit(status) == pc' = "exit" /\ exit_status' = status

CsvNotFound ==
    /\ pc = "validate" /\ CsvMissing(fs)
    /\ Exit(1)
    /\ UNCHANGED <<args, fs, csv, df, use_sheets, sink, written>>
    /\ UNCHANGED pureVars

ReadCsv ==
    /\ pc = "validate" /\ ~CsvMissing(fs)
    /\ \E rows \in CsvFiles : csv' = rows
    /\ pc' = "loaded"
    /\ UNCHANGED <<args, fs, df, use_sheets, sink, written, exit_status>>
    /\ UNCHANGED pureVars

\* The uncaught exception of pd.to_datetime ends the process with status 1
ParseDatesRaises ==
    /\ pc = "loaded"
    /\ ToDatetimeMayRaise(SelectSeq(csv, HasOpenDate))
    /\ Exit(1)
    /\ UNCHANGED <<args, fs, csv, df, use_sheets, sink, written>>
    /\ UNCHANGED pureVars

FilterParseSort ==
    /\ pc = "loaded"
    /\ LET kept   == SelectSeq(csv, HasOpenDate)
           parsed == [i \in 1..Len(kept) |->
                        [kept[i] EXCEPT !["Open Date"] = ToTimestamp(@)]]
       IN  /\ ToDatetimeMayReturn(kept)
           /\ df' \in SortValues(parsed)
    /\ pc' = "choose"
    /\ UNCHANGED <<args, fs, csv, use_sheets, sink, written, exit_status>>
    /\ UNCHANGED pureVars

ChooseMode ==
    /\ pc = "choose"
    /\ use_sheets' = choose_mode(args, fs)
    /\ pc' = "execute"
    /\ UNCHANGED <<args, fs, csv, df, sink, written, exit_status>>
    /\ UNCHANGED pureVars

SheetIdNotSet ==
    /\ pc = "execute" /\ use_sheets
    /\ SheetIdUnset(args)
    /\ Exit(1)
    /\ UNCHANGED <<args, fs, csv, df, use_sheets, sink, written>>
    /\ UNCHANGED pureVars

CredsNotFound ==
    /\ pc = "execute" /\ use_sheets
    /\ ~SheetIdUnset(args) /\ CredsMissing(fs)
    /\ Exit(1)
    /\ UNCHANGED <<args, fs, csv, df, use_sheets, sink, written>>
    /\ UNCHANGED pureVars

EnterWriteToSheets ==
    /\ pc = "execute" /\ use_sheets
    /\ ~SheetIdUnset(args) /\ ~CredsMissing(fs)
    /\ pc' = "write_to_sheets" /\ sink' = "sheets"
    /\ UNCHANGED <<args, fs, csv, df, use_sheets, written, exit_status>>
    /\ UNCHANGED pureVars

TemplateNotFound ==
    /\ pc = "execute" /\ ~use_sheets
    /\ TemplateMissing(fs)
    /\ Exit(1)
    /\ UNCHANGED <<args, fs, csv, df, use_sheets, sink, written>>
    /\ UNCHANGED pureVars

EnterWriteToXlsx ==
    /\ pc = "execute" /\ ~use_sheets
    /\ ~TemplateMissing(fs)
    /\ pc' = "write_to_xlsx" /\ sink' = "xlsx"
    /\ UNCHANGED <<args, fs, csv, df, use_sheets, written, exit_status>>
    /\ UNCHANGED pureVars

\* rows = [map_row(row) for _, row in df.iterrows()]
MappedRows(frame) == [i \in 1..Len(frame) |-> map_row(frame[i])]

\* write_to_sheets: one update call with all the rows, none when there are none
WriteToSheets ==
    /\ pc = "write_to_sheets"
    /\ written' = MappedRows(df)
    /\ Exit(0)
    /\ UNCHANGED <<args, fs, csv, df, use_sheets, sink>>
    /\ UNCHANGED pureVars

\* The client packages are not installed (sys.exit(1)), or authentication,
\* open_by_key or update raises
WriteToSheetsFails ==
    /\ pc = "write_to_sheets"
    /\ Exit(1)
    /\ UNCHANGED <<args, fs, csv, df, use_sheets, sink, written>>
    /\ UNCHANGED pureVars

\* write_to_xlsx: each mapped row into the cells of row i >= 2, then save
WriteToXlsx ==
    /\ pc = "write_to_xlsx"
    /\ written' = MappedRows(df)
    /\ Exit(0)
    /\ UNCHANGED <<args, fs, csv, df, use_sheets, sink>>
    /\ UNCHANGED pureVars

\* load_workbook or save raises; nothing is saved
WriteToXlsxFails ==
    /\ pc = "write_to_xlsx"
    /\ Exit(1)
    /\ UNCHANGED <<args, fs, csv, df, use_sheets, sink, written>>
    /\ UNCHANGED pureVars

Next ==
    \/ CsvNotFound
    \/ ReadCsv
    \/ ParseDatesRaises
    \/ FilterParseSort
    \/ ChooseMode
    \/ SheetIdNotSet
    \/ CredsNotFound
    \/ EnterWriteToSheets
    \/ TemplateNotFound
    \/ EnterWriteToXlsx
    \/ WriteToSheets
    \/ WriteToSheetsFails
    \/ WriteToXlsx
    \/ WriteToXlsxFails

Spec == Init /\ [][Next]_vars

-----------------------------------------------------------------------------
(* Properties of the field transformers and of the row mapper *)

RealLabels == VALID_ENTRY_MODELS \ {CATCH_ALL}

\* The candidates of a cell: split on commas, then each candidate with the
\* legacy misspelling normalised, trimmed and lowercased.
Candidates(cell) ==
    LET raw == split(pystr(cell))
    IN  [i \in 1..Len(raw) |-> lower(strip(replace(raw[i], "csid", "cisd")))]

RealAt(cell) == { i \in 1..Len(Candidates(cell)) : Candidates(cell)[i] \in RealLabels }

RealMatched(cell) == { Candidates(cell)[i] : i \in RealAt(cell) }

BlankCell(cell) == isna(cell) \/ \A i \in 1..Len(pystr(cell)) : IsSpace(Ch(pystr(cell), i))

RealSelection(cell) ==
    ~BlankCell(cell) /\ RealAt(cell) # {} /\ RealMatched(cell) # RealLabels

IsReal(c) == c \in RealLabels

ExpectedEntryModel(cell) ==
    LET c     == Candidates(cell)
        first == CHOOSE i \in RealAt(cell) : \A j \in RealAt(cell) : i <= j
        rest  == SelectSeq(SubSeq(c, first + 1, Len(c)), IsReal)
    IN  <<c[first], IF Len(rest) > 0 THEN join(", ", rest) ELSE "-">>

\* C6: for a cell with at least one real (non-catch-all) match that is not a
\* dump of the whole vocabulary, get_entry_model returns the first real match
\* in cell order and, as overflow, the remaining real matches in cell order
\* joined with ", ", or "-" when there is only one.
C6_RealSelection ==
    (Returned("get_entry_model") /\ RealSelection(arg))
        => Result = ExpectedEntryModel(arg)

C6_Witness ==
    /\ Returned("get_entry_model") /\ RealSelection(arg)
    /\ contains(pystr(arg), "csid")
    /\ Cardinality(RealAt(arg)) > 1
    /\ Result[2] # "-"

\* C7: for a blank or missing cell, a cell with no real match, and a cell
\* whose real matches cover the whole non-catch-all vocabulary (with or
\* without the catch-all label), get_entry_model returns the catch-all label
\* with overflow "-".
C7_NothingSelected ==
    (Returned("get_entry_model") /\ ~RealSelection(arg))
        => Result = <<CATCH_ALL, "-">>

C7_Witness ==
    /\ Returned("get_entry_model") /\ ~BlankCell(arg)
    /\ RealMatched(arg) = RealLabels
    /\ \E i \in 1..Len(Candidates(arg)) : Candidates(arg)[i] = CATCH_ALL
    /\ Result = <<CATCH_ALL, "-">>

\* The status of a record: the text of the Status field, trimmed and
\* lowercased; the sign of its pnl, a missing or non-numeric value counting
\* as 0.
ClaimedStatus(row) ==
    IF "Status" \in DOMAIN row THEN lower(strip(pystr(row["Status"]))) ELSE ""

ClaimedPnlSign(row) ==
    IF "Net P&L" \notin DOMAIN row THEN 0
    ELSE LET f == pyfloat(row["Net P&L"])
         IN  IF f[1] \in {"error", "nan"} THEN 0
             ELSE IF f[2] > 0 THEN 1 ELSE IF f[2] < 0 THEN -1 ELSE 0

ClaimedOutcome(row) ==
    IF ClaimedStatus(row) = "breakeven" \/ ClaimedPnlSign(row) = 0 THEN "breakeven"
    ELSE IF ClaimedStatus(row) = "win" \/ ClaimedPnlSign(row) > 0 THEN "green"
    ELSE IF ClaimedStatus(row) = "loss" \/ ClaimedPnlSign(row) < 0 THEN "red"
    ELSE ""

\* C8: get_outcome returns 'breakeven' if the status is 'breakeven' or the pnl
\* is 0, a missing or non-numeric pnl counting as 0; else 'green' if the
\* status is 'win' or pnl > 0; else 'red' if the status is 'loss' or pnl < 0;
\* else the empty string.
C8_Outcome ==
    Returned("get_outcome") => Result = ClaimedOutcome(arg)

\* C9: normalize_yesno returns '' if the trimmed, lowercased text contains
\* both 'yes' and 'no'; otherwise 'yes' for 'true','yes','1','y'; otherwise
\* 'no' for 'false','no','0','n'; otherwise ''.
C9_YesNo ==
    Returned("normalize_yesno") =>
        LET v == lower(strip(pystr(arg)))
        IN  /\ Result \in {"yes", "no", ""}
            /\ (contains(v, "yes") /\ contains(v, "no")) => Result = ""
            /\ ~(contains(v, "yes") /\ contains(v, "no")) =>
                 /\ Result = "yes" <=> v \in {"true", "yes", "1", "y"}
                 /\ Result = "no"  <=> v \in {"false", "no", "0", "n"}

C9_Witness ==
    /\ Returned("normalize_yesno")
    /\ arg = PyStr(" Y")
    /\ Result = "yes"

IsIsoText(s) ==
    /\ Len(s) = 10 /\ Ch(s, 5) = "-" /\ Ch(s, 8) = "-"
    /\ AllDigits(SubSeq(s, 1, 4)) /\ AllDigits(SubSeq(s, 6, 7))
    /\ AllDigits(SubSeq(s, 9, 10))

IsMdyText(s) ==
    /\ Len(s) = 10 /\ Ch(s, 3) = "/" /\ Ch(s, 6) = "/"
    /\ AllDigits(SubSeq(s, 1, 2)) /\ AllDigits(SubSeq(s, 4, 5))
    /\ AllDigits(SubSeq(s, 7, 10))

\* The destination schema: what each of the 15 positions holds
DestinationShape(r, src) ==
    /\ Len(r) = 15
    /\ r[1] = "" \/ IsIsoText(r[1])
    /\ r[2] \in VALID_ENTRY_MODELS
    /\ r[2] = CATCH_ALL => r[3] = "-"
    /\ r[4] = "USD"
    /\ r[5] = (IF "Net P&L" \in DOMAIN src THEN src["Net P&L"] ELSE PyInt(0))
    /\ r[6] \in {"breakeven", "green", "red", ""}
    /\ r[8] \in {"yes", "no", ""}
    /\ r[9] \in {"yes", "no", ""}
    /\ r[15] = ""

\* C5: every destination record has 15 positional values in the destination
\* column order, whatever fields of the source record are present, empty or
\* missing.
C5_FixedLength ==
    Returned("map_row") => DestinationShape(Result, arg)

C5_Witness ==
    /\ Returned("map_row")
    /\ "Entry Model" \notin DOMAIN arg
    /\ "Emotions" \in DOMAIN arg /\ arg["Emotions"] = NaN
    /\ Len(Result) = 15


-----------------------------------------------------------------------------
(* Properties of a run of main() *)

Running == pc # "idle"

Completed == pc = "exit" /\ exit_status = 0

\* The selection policy, stated on the inputs of the run
CloudSelected ==
    /\ ~args.xlsx
    /\ args.sheets \/ (ResolvedSheetId(args) # PLACEHOLDER /\ fs.creds)

ModeChosen == pc \in {"execute", "write_to_sheets", "write_to_xlsx"}

AutoDetected == ResolvedSheetId(args) # PLACEHOLDER /\ fs.creds

\* C1 as stated: once the mode is chosen, each explicit flag forces its own
\* sink whatever the identifier and the credential file, and without a flag
\* the cloud sink is chosen iff the identifier is set and the credential
\* file exists.
C1_EachFlagForcesItsSink ==
    ModeChosen =>
        /\ args.xlsx => ~use_sheets
        /\ args.sheets => use_sheets
        /\ (~args.xlsx /\ ~args.sheets) => (use_sheets <=> AutoDetected)

\* C1 as amended: --xlsx forces the file sink, --sheets forces the cloud sink
\* unless --xlsx is given too, and without a flag the cloud sink is chosen
\* iff the identifier is set and the credential file exists.
C1_SinkSelection ==
    ModeChosen =>
        /\ args.xlsx => ~use_sheets
        /\ (args.sheets /\ ~args.xlsx) => use_sheets
        /\ (~args.xlsx /\ ~args.sheets) => (use_sheets <=> AutoDetected)

C1_Witness ==
    /\ ModeChosen
    /\ args.xlsx /\ args.sheets
    /\ ResolvedSheetId(args) # PLACEHOLDER /\ fs.creds
    /\ ~use_sheets

FatalRun ==
    /\ Running
    /\ \/ ~fs.csv
       \/ CloudSelected /\ (ResolvedSheetId(args) = PLACEHOLDER \/ ~fs.creds)
       \/ ~CloudSelected /\ ~fs.template

\* C2: a run whose input file is missing, or whose selected sink lacks its
\* identifier, credential file or template, never enters a sink writer, and
\* its exit status is non-zero.
C2_FatalPreconditions ==
    FatalRun =>
        /\ sink = "none"
        /\ pc = "exit" => exit_status # 0

C2_Witness ==
    /\ FatalRun /\ fs.csv /\ ~CloudSelected /\ ~fs.template
    /\ Len(csv) > 0
    /\ pc = "exit" /\ exit_status = 1 /\ sink = "none"

SinkReady ==
    IF CloudSelected
    THEN ResolvedSheetId(args) # PLACEHOLDER /\ fs.creds
    ELSE fs.template

NonNumericPnl(row) == pyfloat(row["Net P&L"])[1] = "error"

UnrecognizedEntryModel(row) ==
    /\ ~BlankCell(row["Entry Model"])
    /\ \A i \in 1..Len(Candidates(row["Entry Model"])) :
           Candidates(row["Entry Model"])[i] \notin VALID_ENTRY_MODELS

Malformed(row) ==
    \/ Unparseable(row["Open Date"])
    \/ NonNumericPnl(row)
    \/ UnrecognizedEntryModel(row)

\* C3: a run whose input file exists and whose sink is ready is not aborted
\* by a row with an unparseable open date, a non-numeric Net P&L or an
\* unrecognized entry model: it reaches the sink writer, and the rows it
\* writes carry the defaults (pnl as 0, catch-all label).
C3_MalformedNeverFatal ==
    (pc = "exit" /\ fs.csv /\ SinkReady /\ \E i \in 1..Len(csv) : Malformed(csv[i]))
        => /\ sink # "none"
           /\ \A i \in 1..Len(written) :
                /\ NonNumericPnl(df[i]) =>
                     written[i][6] = ClaimedOutcome([df[i] EXCEPT !["Net P&L"] = PyInt(0)])
                /\ UnrecognizedEntryModel(df[i]) => written[i][2] = CATCH_ALL

\* A source row is dated when its Open Date is present and non-blank
Dated(row) == ~BlankCell(row["Open Date"])

DatedAt == { i \in 1..Len(csv) : Dated(csv[i]) }

\* C4: the rows of a completed run are the mapped dated source rows, each
\* once and in some order, so their number is the number of source rows less
\* the number of rows lacking an Open Date.
C4_DatedRowsWritten ==
    Completed =>
        /\ Len(written) = Len(csv) - Cardinality((1..Len(csv)) \ DatedAt)
        /\ \E p \in [DatedAt -> 1..Len(written)] :
              /\ \A i, j \in DatedAt : p[i] = p[j] => i = j
              /\ \A i \in DatedAt : written[p[i]] = map_row(csv[i])

C4_Witness ==
    /\ Completed
    /\ Len(csv) > Len(written)
    /\ Len(written) > 0
    /\ \E i \in 1..Len(csv) : csv[i]["Open Date"] \in {NaN, PyStr("   ")}

DateOfIsoText(s) ==
    <<StrToNat(SubSeq(s, 1, 4)), StrToNat(SubSeq(s, 6, 7)), StrToNat(SubSeq(s, 9, 10))>>

DateOfMdyText(s) ==
    <<StrToNat(SubSeq(s, 7, 10)), StrToNat(SubSeq(s, 1, 2)), StrToNat(SubSeq(s, 4, 5))>>

\* C10 as stated: the date column of a row written to the cloud sink is
\* month/day/year text, that of a row written to the file sink is ISO
\* year-month-day text.
C10_DateBySink ==
    Completed =>
        \A i \in 1..Len(written) :
            IF sink = "sheets"
            THEN IsMdyText(written[i][1])
                 /\ DateOfMdyText(written[i][1]) = df[i]["Open Date"].d
            ELSE IsIsoText(written[i][1])
                 /\ DateOfIsoText(written[i][1]) = df[i]["Open Date"].d

\* C10 as amended: the date column of every row written, to either sink, is
\* the ISO year-month-day text of the row's open date.
C10_DateIsoForBothSinks ==
    Completed =>
        \A i \in 1..Len(written) :
            /\ IsIsoText(written[i][1])
            /\ DateOfIsoText(written[i][1]) = df[i]["Open Date"].d

C10_Witness ==
    /\ Completed /\ sink = "sheets"
    /\ \E i \in 1..Len(csv) : csv[i]["Open Date"] = PyStr("01/05/2024")
    /\ \E i \in 1..Len(written) : written[i][1] = "2024-01-05"

====
